---- MODULE Spec2Model ----
(***************************************************************************)
(* The erc20 ledger contract of cosmwasm-examples (erc20/src/contract.rs):  *)
(* init, handle (approve, transfer, transfer_from) and query over one flat  *)
(* byte-oriented key-value store.                                           *)
(*                                                                          *)
(* Amounts are unsigned integers of U128Bytes big-endian digits of radix    *)
(* ByteBase (the contract: 16 bytes of radix 256); arithmetic on them       *)
(* wraps modulo U128Modulus, as the release build of the contract does.     *)
(* Strings (names, symbols, decimal amounts) are sequences of byte codes.   *)
(***************************************************************************)
EXTENDS Integers, Sequences, FiniteSets, TLC

(***************************************************************************)
(* Bounds of the model                                                      *)
(***************************************************************************)
\* number of big-endian digits of a stored amount (16 in the contract)
U128Bytes == 2
\* radix of one digit of a stored amount (256 in the contract)
ByteBase == 2
\* largest amount a request writes in decimal as one digit
MaxAmount == 2
\* longest initial_balances list of an init request
MaxRows == 2
\* number of handle and query calls after init
MaxCalls == 2

(***************************************************************************)
(* Program constants                                                        *)
(***************************************************************************)
MIN_NAME_LEN == 3
MAX_NAME_LEN == 30
MIN_SYMBOL_LEN == 3
MAX_SYMBOL_LEN == 6
MAX_DECIMALS == 18
ASCII_UPPER_A == 65
ASCII_UPPER_Z == 90
\* '0', the first decimal digit of an Amount string
ASCII_ZERO == 48

RECURSIVE Pow(_, _)
Pow(b, e) == IF e = 0 THEN 1 ELSE b * Pow(b, e - 1)

\* one more than the largest u128
U128Modulus == Pow(ByteBase, U128Bytes)

(***************************************************************************)
(* Errors (cosmwasm::errors): "" stands for Ok                              *)
(***************************************************************************)
Ok == ""
ErrInvalidName == "Name is not in the expected format (3-30 UTF-8 bytes)"
ErrInvalidSymbol == "Ticker symbol is not in expected format [A-Z]{3,6}"
ErrInvalidDecimals == "Decimals must not exceed 18"
ErrInsufficientFunds == "Insufficient funds"
ErrInsufficientAllowance == "Insufficient allowance"
ErrCorrupted == "Corrupted data found. 16 byte expected."
ErrParse == "Error while parsing string to u128"
ErrCanonical == "canonical_address failed"
ErrPanic == "panic"

(***************************************************************************)
(* Addresses                                                                *)
(***************************************************************************)
\* human addresses of requests; the last one does not canonicalize
ValidHumanAddrs == {"addr0000", "addr1111", "addr4321"}
BadHumanAddr == "badaddr"
HumanAddrs == ValidHumanAddrs \cup {BadHumanAddr}

\* deps.api.canonical_address: [err, addr]
canonical_address(human) ==
    IF human \in ValidHumanAddrs
    THEN [err |-> Ok, addr |-> <<"canonical", human>>]
    ELSE [err |-> ErrCanonical, addr |-> <<>>]

CanonicalAddrs == {canonical_address(h).addr : h \in ValidHumanAddrs}

(***************************************************************************)
(* Amount codec                                                             *)
(***************************************************************************)
\* u128::to_be_bytes
RECURSIVE be_digits(_, _)
be_digits(n, len) ==
    IF len = 0 THEN <<>>
    ELSE Append(be_digits(n \div ByteBase, len - 1), n % ByteBase)

to_be_bytes(n) == be_digits(n, U128Bytes)

\* u128::from_be_bytes
RECURSIVE from_be_bytes(_)
from_be_bytes(bytes) ==
    IF Len(bytes) = 0 THEN 0
    ELSE from_be_bytes(SubSeq(bytes, 1, Len(bytes) - 1)) * ByteBase
         + bytes[Len(bytes)]

\* data[0..16] panics on a slice shorter than 16; the 16-byte slice it
\* yields otherwise always converts
bytes_to_u128(data) ==
    IF Len(data) < U128Bytes
    THEN [err |-> ErrPanic, val |-> 0]
    ELSE [err |-> Ok, val |-> from_be_bytes(SubSeq(data, 1, U128Bytes))]

\* read_u128 as it would be with a missing key treated as corrupted data
read_u128_missing_is_error(store, key) ==
    IF key \in DOMAIN store
    THEN bytes_to_u128(store[key])
    ELSE [err |-> ErrCorrupted, val |-> 0]

\* a store is a function from its written keys to their values
read_u128(store, key) ==
    IF key \in DOMAIN store
    THEN bytes_to_u128(store[key])
    ELSE [err |-> Ok, val |-> 0]

\* Storage::set
set(store, key, value) ==
    [k \in (DOMAIN store) \cup {key} |-> IF k = key THEN value ELSE store[k]]

\* Amount::from(u128): the decimal string of n
RECURSIVE AmountFrom(_)
AmountFrom(n) ==
    IF n < 10 THEN <<ASCII_ZERO + n>>
    ELSE Append(AmountFrom(n \div 10), ASCII_ZERO + (n % 10))

IsDigit(c) == c >= ASCII_ZERO /\ c <= ASCII_ZERO + 9

RECURSIVE DecimalValue(_)
DecimalValue(s) ==
    IF Len(s) = 0 THEN 0
    ELSE LET hi == DecimalValue(SubSeq(s, 1, Len(s) - 1))
         IN  IF hi >= U128Modulus THEN U128Modulus
             ELSE hi * 10 + (s[Len(s)] - ASCII_ZERO)

\* Amount::parse: the u128 a decimal string denotes
parse(amount) ==
    IF Len(amount) = 0 \/ (\E i \in 1..Len(amount) : ~IsDigit(amount[i]))
    THEN [err |-> ErrParse, val |-> 0]
    ELSE IF DecimalValue(amount) >= U128Modulus
         THEN [err |-> ErrParse, val |-> 0]
         ELSE [err |-> Ok, val |-> DecimalValue(amount)]

(***************************************************************************)
(* Key namespacing                                                          *)
(***************************************************************************)
PREFIX_BALANCES == "balances"
PREFIX_ALLOWANCES == "allowances"
KEY_CONSTANTS == <<"constants">>
KEY_TOTAL_SUPPLY == <<"total_supply">>

\* PrefixedStorage::new(PREFIX_BALANCES, ..) applied to a key
BalanceKey(addr) == <<PREFIX_BALANCES, addr>>
\* AllowanceKey as it would be without the owner's sub-namespace
AllowanceKey_spender_only(owner, spender) == <<PREFIX_ALLOWANCES, spender>>

\* PrefixedStorage::new(owner, PrefixedStorage::new(PREFIX_ALLOWANCES, ..))
AllowanceKey(owner, spender) == <<PREFIX_ALLOWANCES, owner, spender>>

read_balance(store, owner) == read_u128(store, BalanceKey(owner))

read_allowance(store, owner, spender) ==
    read_u128(store, AllowanceKey(owner, spender))

write_allowance(store, owner, spender, amount) ==
    set(store, AllowanceKey(owner, spender), to_be_bytes(amount))

\* u128 addition and subtraction of the release build
WrappingAdd(a, b) == (a + b) % U128Modulus
WrappingSub(a, b) == (a - b) % U128Modulus

(***************************************************************************)
(* Ledger operations: each yields [err, store], the Result of the call and  *)
(* the store as the call leaves it                                          *)
(***************************************************************************)
\* perform_transfer as it would be without the check of the sender's balance
perform_transfer_unchecked(store, from, to, amount) ==
    LET from_read == read_u128(store, BalanceKey(from))
    IN  IF from_read.err # Ok THEN [err |-> from_read.err, store |-> store]
        ELSE LET store1 == set(store, BalanceKey(from),
                               to_be_bytes(WrappingSub(from_read.val, amount)))
                 to_read == read_u128(store1, BalanceKey(to))
             IN  IF to_read.err # Ok
                 THEN [err |-> to_read.err, store |-> store1]
                 ELSE [err |-> Ok,
                       store |-> set(store1, BalanceKey(to),
                                     to_be_bytes(WrappingAdd(to_read.val, amount)))]

\* perform_transfer as it would be if it read both balances before writing
perform_transfer_reading_first(store, from, to, amount) ==
    LET from_read == read_u128(store, BalanceKey(from))
        to_read == read_u128(store, BalanceKey(to))
    IN  IF from_read.err # Ok THEN [err |-> from_read.err, store |-> store]
        ELSE IF to_read.err # Ok THEN [err |-> to_read.err, store |-> store]
        ELSE IF from_read.val < amount
        THEN [err |-> ErrInsufficientFunds, store |-> store]
        ELSE [err |-> Ok,
              store |-> set(set(store, BalanceKey(from),
                                to_be_bytes(WrappingSub(from_read.val, amount))),
                            BalanceKey(to),
                            to_be_bytes(WrappingAdd(to_read.val, amount)))]

\* perform_transfer as it would be without the write of the sender's balance
perform_transfer_without_debit(store, from, to, amount) ==
    LET from_read == read_u128(store, BalanceKey(from))
    IN  IF from_read.err # Ok THEN [err |-> from_read.err, store |-> store]
        ELSE IF from_read.val < amount
        THEN [err |-> ErrInsufficientFunds, store |-> store]
        ELSE LET to_read == read_u128(store, BalanceKey(to))
             IN  IF to_read.err # Ok
                 THEN [err |-> to_read.err, store |-> store]
                 ELSE [err |-> Ok,
                       store |-> set(store, BalanceKey(to),
                                     to_be_bytes(WrappingAdd(to_read.val, amount)))]

\* perform_transfer as it would be if it credited the recipient as newly
\* issued supply: no debit of the sender, and the amount added to the total
perform_transfer_minting(store, from, to, amount) ==
    LET from_read == read_u128(store, BalanceKey(from))
    IN  IF from_read.err # Ok THEN [err |-> from_read.err, store |-> store]
        ELSE IF from_read.val < amount
        THEN [err |-> ErrInsufficientFunds, store |-> store]
        ELSE LET to_read == read_u128(store, BalanceKey(to))
                 store1 == set(store, BalanceKey(to),
                               to_be_bytes(WrappingAdd(to_read.val, amount)))
             IN  IF to_read.err # Ok THEN [err |-> to_read.err, store |-> store]
                 ELSE [err |-> Ok,
                       store |-> set(store1, KEY_TOTAL_SUPPLY,
                                     AmountFrom(WrappingAdd(
                                         parse(store[KEY_TOTAL_SUPPLY]).val,
                                         amount)))]

perform_transfer(store, from, to, amount) ==
    LET from_read == read_u128(store, BalanceKey(from))
    IN  IF from_read.err # Ok THEN [err |-> from_read.err, store |-> store]
        ELSE IF from_read.val < amount
        THEN [err |-> ErrInsufficientFunds, store |-> store]
        ELSE LET store1 == set(store, BalanceKey(from),
                               to_be_bytes(WrappingSub(from_read.val, amount)))
                 to_read == read_u128(store1, BalanceKey(to))
             IN  IF to_read.err # Ok
                 THEN [err |-> to_read.err, store |-> store1]
                 ELSE [err |-> Ok,
                       store |-> set(store1, BalanceKey(to),
                                     to_be_bytes(WrappingAdd(to_read.val, amount)))]

try_transfer(store, signer, recipient, amount) ==
    LET recipient_address_raw == canonical_address(recipient)
        amount_raw == parse(amount)
    IN  IF recipient_address_raw.err # Ok
        THEN [err |-> recipient_address_raw.err, store |-> store]
        ELSE IF amount_raw.err # Ok
        THEN [err |-> amount_raw.err, store |-> store]
        ELSE perform_transfer(store, signer, recipient_address_raw.addr,
                              amount_raw.val)

\* try_transfer_from as it would be without the check of the allowance
try_transfer_from_unchecked(store, signer, owner, recipient, amount) ==
    LET owner_address_raw == canonical_address(owner)
        recipient_address_raw == canonical_address(recipient)
        amount_raw == parse(amount)
    IN  IF owner_address_raw.err # Ok
        THEN [err |-> owner_address_raw.err, store |-> store]
        ELSE IF recipient_address_raw.err # Ok
        THEN [err |-> recipient_address_raw.err, store |-> store]
        ELSE IF amount_raw.err # Ok
        THEN [err |-> amount_raw.err, store |-> store]
        ELSE LET allowance ==
                     read_allowance(store, owner_address_raw.addr, signer)
             IN  IF allowance.err # Ok
                 THEN [err |-> allowance.err, store |-> store]
                 ELSE perform_transfer(
                          write_allowance(store, owner_address_raw.addr, signer,
                              WrappingSub(allowance.val, amount_raw.val)),
                          owner_address_raw.addr, recipient_address_raw.addr,
                          amount_raw.val)

\* try_transfer_from as it would be if it moved the balance first and wrote
\* the allowance after a successful move
try_transfer_from_allowance_last(store, signer, owner, recipient, amount) ==
    LET owner_address_raw == canonical_address(owner)
        recipient_address_raw == canonical_address(recipient)
        amount_raw == parse(amount)
    IN  IF owner_address_raw.err # Ok
        THEN [err |-> owner_address_raw.err, store |-> store]
        ELSE IF recipient_address_raw.err # Ok
        THEN [err |-> recipient_address_raw.err, store |-> store]
        ELSE IF amount_raw.err # Ok
        THEN [err |-> amount_raw.err, store |-> store]
        ELSE LET allowance ==
                     read_allowance(store, owner_address_raw.addr, signer)
                 done == perform_transfer(store, owner_address_raw.addr,
                             recipient_address_raw.addr, amount_raw.val)
             IN  IF allowance.err # Ok
                 THEN [err |-> allowance.err, store |-> store]
                 ELSE IF allowance.val < amount_raw.val
                 THEN [err |-> ErrInsufficientAllowance, store |-> store]
                 ELSE IF done.err # Ok THEN done
                 ELSE [err |-> Ok,
                       store |-> write_allowance(done.store,
                                     owner_address_raw.addr, signer,
                                     WrappingSub(allowance.val, amount_raw.val))]

try_transfer_from(store, signer, owner, recipient, amount) ==
    LET owner_address_raw == canonical_address(owner)
        recipient_address_raw == canonical_address(recipient)
        amount_raw == parse(amount)
    IN  IF owner_address_raw.err # Ok
        THEN [err |-> owner_address_raw.err, store |-> store]
        ELSE IF recipient_address_raw.err # Ok
        THEN [err |-> recipient_address_raw.err, store |-> store]
        ELSE IF amount_raw.err # Ok
        THEN [err |-> amount_raw.err, store |-> store]
        ELSE LET allowance ==
                     read_allowance(store, owner_address_raw.addr, signer)
             IN  IF allowance.err # Ok
                 THEN [err |-> allowance.err, store |-> store]
                 ELSE IF allowance.val < amount_raw.val
                 THEN [err |-> ErrInsufficientAllowance, store |-> store]
                 ELSE perform_transfer(
                          write_allowance(store, owner_address_raw.addr, signer,
                              WrappingSub(allowance.val, amount_raw.val)),
                          owner_address_raw.addr, recipient_address_raw.addr,
                          amount_raw.val)

\* try_approve as it would be if it added the amount to the stored allowance
try_approve_accumulating(store, signer, spender, amount) ==
    LET spender_address_raw == canonical_address(spender)
        amount_raw == parse(amount)
    IN  IF spender_address_raw.err # Ok
        THEN [err |-> spender_address_raw.err, store |-> store]
        ELSE IF amount_raw.err # Ok
        THEN [err |-> amount_raw.err, store |-> store]
        ELSE [err |-> Ok,
              store |-> write_allowance(store, signer, spender_address_raw.addr,
                            WrappingAdd(
                                read_allowance(store, signer,
                                               spender_address_raw.addr).val,
                                amount_raw.val))]

try_approve(store, signer, spender, amount) ==
    LET spender_address_raw == canonical_address(spender)
        amount_raw == parse(amount)
    IN  IF spender_address_raw.err # Ok
        THEN [err |-> spender_address_raw.err, store |-> store]
        ELSE IF amount_raw.err # Ok
        THEN [err |-> amount_raw.err, store |-> store]
        ELSE [err |-> Ok,
              store |-> write_allowance(store, signer,
                                        spender_address_raw.addr, amount_raw.val)]

\* is_valid_name as it would be without the upper limit on the length
is_valid_name_no_upper_limit(name) ==
    ~(Len(name) < MIN_NAME_LEN)

is_valid_name(name) ==
    ~(Len(name) < MIN_NAME_LEN \/ Len(name) > MAX_NAME_LEN)

is_valid_symbol(symbol) ==
    /\ ~(Len(symbol) < MIN_SYMBOL_LEN \/ Len(symbol) > MAX_SYMBOL_LEN)
    /\ \A i \in 1..Len(symbol) :
          ~(symbol[i] < ASCII_UPPER_A \/ symbol[i] > ASCII_UPPER_Z)

\* the loop of init as it would be with a checked addition to the total
RECURSIVE init_balances_checked(_, _, _, _)
init_balances_checked(rows, i, store, total) ==
    IF i > Len(rows) THEN [err |-> Ok, store |-> store, total |-> total]
    ELSE LET raw_address == canonical_address(rows[i].address)
             amount_raw == parse(rows[i].amount)
         IN  IF raw_address.err # Ok
             THEN [err |-> raw_address.err, store |-> store, total |-> total]
             ELSE IF amount_raw.err # Ok
             THEN [err |-> amount_raw.err, store |-> store, total |-> total]
             ELSE IF total + amount_raw.val >= U128Modulus
             THEN [err |-> ErrPanic,
                   store |-> set(store, BalanceKey(raw_address.addr),
                                 to_be_bytes(amount_raw.val)),
                   total |-> total]
             ELSE init_balances_checked(rows, i + 1,
                      set(store, BalanceKey(raw_address.addr),
                          to_be_bytes(amount_raw.val)),
                      total + amount_raw.val)

\* the loop of init over msg.initial_balances, from row i on:
\* [err, store, total]
RECURSIVE init_balances(_, _, _, _)
init_balances(rows, i, store, total) ==
    IF i > Len(rows) THEN [err |-> Ok, store |-> store, total |-> total]
    ELSE LET raw_address == canonical_address(rows[i].address)
             amount_raw == parse(rows[i].amount)
         IN  IF raw_address.err # Ok
             THEN [err |-> raw_address.err, store |-> store, total |-> total]
             ELSE IF amount_raw.err # Ok
             THEN [err |-> amount_raw.err, store |-> store, total |-> total]
             ELSE init_balances(rows, i + 1,
                      set(store, BalanceKey(raw_address.addr),
                          to_be_bytes(amount_raw.val)),
                      WrappingAdd(total, amount_raw.val))

\* constants(..).save and total_supply(..).save
save_constants(store, msg) ==
    set(store, KEY_CONSTANTS,
        [name |-> msg.name, symbol |-> msg.symbol, decimals |-> msg.decimals])

save_total_supply(store, total) == set(store, KEY_TOTAL_SUPPLY, AmountFrom(total))

init(store, msg) ==
    LET loop == init_balances(msg.initial_balances, 1, store, 0)
    IN  IF loop.err # Ok THEN [err |-> loop.err, store |-> loop.store]
        ELSE IF ~is_valid_name(msg.name)
        THEN [err |-> ErrInvalidName, store |-> loop.store]
        ELSE IF ~is_valid_symbol(msg.symbol)
        THEN [err |-> ErrInvalidSymbol, store |-> loop.store]
        ELSE IF msg.decimals > MAX_DECIMALS
        THEN [err |-> ErrInvalidDecimals, store |-> loop.store]
        ELSE [err |-> Ok,
              store |-> save_total_supply(save_constants(loop.store, msg),
                                          loop.total)]

\* query: [err, data], the decimal string a response record wraps
query_balance(store, address) ==
    LET address_key == canonical_address(address)
    IN  IF address_key.err # Ok THEN [err |-> address_key.err, data |-> <<>>]
        ELSE LET balance == read_balance(store, address_key.addr)
             IN  IF balance.err # Ok THEN [err |-> balance.err, data |-> <<>>]
                 ELSE [err |-> Ok, data |-> AmountFrom(balance.val)]

query_allowance(store, owner, spender) ==
    LET owner_key == canonical_address(owner)
        spender_key == canonical_address(spender)
    IN  IF owner_key.err # Ok THEN [err |-> owner_key.err, data |-> <<>>]
        ELSE IF spender_key.err # Ok
        THEN [err |-> spender_key.err, data |-> <<>>]
        ELSE LET allowance ==
                     read_allowance(store, owner_key.addr, spender_key.addr)
             IN  IF allowance.err # Ok
                 THEN [err |-> allowance.err, data |-> <<>>]
                 ELSE [err |-> Ok, data |-> AmountFrom(allowance.val)]

(***************************************************************************)
(* Requests                                                                 *)
(***************************************************************************)
\* decimal amount strings: "0".."MaxAmount"; "10"; and the malformed "x"
ValidAmountStrings == {<<ASCII_ZERO + d>> : d \in 0..MaxAmount}
BadAmountStrings == {<<ASCII_ZERO + 1, ASCII_ZERO>>, <<ASCII_UPPER_Z + 30>>}
AmountStrings == ValidAmountStrings \cup BadAmountStrings

\* requests of handle and query: every well-formed one, and for each
\* argument one request that is malformed in that argument alone
SomeHumanAddr == "addr0000"
SomeAmount == <<ASCII_ZERO + 1>>

TransferMsgs ==
    [recipient : ValidHumanAddrs, amount : ValidAmountStrings]
        \cup [recipient : {BadHumanAddr}, amount : {SomeAmount}]
        \cup [recipient : {SomeHumanAddr}, amount : BadAmountStrings]

ApproveMsgs ==
    [spender : ValidHumanAddrs, amount : ValidAmountStrings]
        \cup [spender : {BadHumanAddr}, amount : {SomeAmount}]
        \cup [spender : {SomeHumanAddr}, amount : BadAmountStrings]

TransferFromMsgs ==
    [owner : ValidHumanAddrs, recipient : ValidHumanAddrs,
     amount : ValidAmountStrings]
        \cup [owner : {BadHumanAddr}, recipient : {SomeHumanAddr},
              amount : {SomeAmount}]
        \cup [owner : {SomeHumanAddr}, recipient : {BadHumanAddr},
              amount : {SomeAmount}]
        \cup [owner : {SomeHumanAddr}, recipient : {SomeHumanAddr},
              amount : BadAmountStrings]

BalanceQueries == [address : HumanAddrs]

AllowanceQueries ==
    [owner : ValidHumanAddrs, spender : ValidHumanAddrs]
        \cup [owner : {BadHumanAddr}, spender : {SomeHumanAddr}]
        \cup [owner : {SomeHumanAddr}, spender : {BadHumanAddr}]

InitialBalance == [address : HumanAddrs, amount : AmountStrings]

RECURSIVE SeqsUpTo(_, _)
SeqsUpTo(S, n) ==
    IF n = 0 THEN {<<>>}
    ELSE LET shorter == SeqsUpTo(S, n - 1)
         IN  shorter \cup {Append(q, x) : q \in {r \in shorter : Len(r) = n - 1},
                                          x \in S}

RowLists == SeqsUpTo(InitialBalance, MaxRows)

\* a string of n bytes 'A'
Letters(n) == [i \in 1..n |-> ASCII_UPPER_A]

\* "Ash token" and "ASH", the request of tests/integration.rs
AshToken == <<65, 115, 104, 32, 116, 111, 107, 101, 110>>
ASH == <<65, 83, 72>>

\* (name, symbol, decimals) of init requests: the test's, another valid one,
\* and one that breaks each rule of init
InitHeaders ==
    { <<AshToken, ASH, 5>>,
      <<Letters(MAX_NAME_LEN), Letters(MAX_SYMBOL_LEN), MAX_DECIMALS>>,
      <<Letters(MIN_NAME_LEN - 1), ASH, 5>>,
      <<Letters(MAX_NAME_LEN + 1), ASH, 5>>,
      <<AshToken, Letters(MIN_SYMBOL_LEN - 1), 5>>,
      <<AshToken, Letters(MAX_SYMBOL_LEN + 1), 5>>,
      <<AshToken, <<65, 115, 104>>, 5>>,
      <<AshToken, <<65, ASCII_UPPER_A - 1, 72>>, 5>>,
      <<AshToken, <<65, ASCII_UPPER_Z + 1, 72>>, 5>>,
      <<AshToken, ASH, MAX_DECIMALS + 1>> }

InitMsgs ==
    { [name |-> h[1], symbol |-> h[2], decimals |-> h[3], initial_balances |-> rows] :
        h \in InitHeaders, rows \in RowLists }

NoMsg == [name |-> <<>>, symbol |-> <<>>, decimals |-> 0, initial_balances |-> <<>>]
NoAddr == <<>>
NoHuman == ""

(***************************************************************************)
(* State                                                                    *)
(***************************************************************************)
VARIABLES
    phase,      \* "new" before init, "ready" after a successful init,
                \* "failed" after a failed one
    storage,    \* deps.storage: written keys |-> values
    calls,      \* handle and query calls made so far
    last,       \* the last call: its request, its pre-store and its result
    approved,   \* (owner, spender) |-> amount of the owner's last approve
    moved,      \* (owner, spender) |-> amount moved out of owner by spender's
                \* successful transfer_from calls since that approve
    listed_sum  \* the sum, as an integer, of the amounts the init request listed

vars == <<phase, storage, calls, last, approved, moved, listed_sum>>

Pairs == CanonicalAddrs \X CanonicalAddrs

EmptyStore == [k \in {} |-> <<>>]

Call(op, signer, owner, other, amount, msg, err, data) ==
    [op |-> op, signer |-> signer, owner |-> owner, other |-> other,
     amount |-> amount, msg |-> msg, err |-> err, data |-> data,
     pre |-> storage]

\* the amounts an init request lists, summed as integers
RECURSIVE ListedSum(_, _)
ListedSum(rows, i) ==
    IF i > Len(rows) THEN 0
    ELSE parse(rows[i].amount).val + ListedSum(rows, i + 1)

Init ==
    /\ phase = "new"
    /\ storage = EmptyStore
    /\ calls = 0
    /\ last = [op |-> "none", signer |-> NoAddr, owner |-> NoHuman,
               other |-> NoHuman, amount |-> <<>>, msg |-> NoMsg, err |-> Ok,
               data |-> <<>>, pre |-> EmptyStore]
    /\ approved = [p \in Pairs |-> 0]
    /\ moved = [p \in Pairs |-> 0]
    /\ listed_sum = 0

\* init(deps, params, msg)
InitCall ==
    /\ phase = "new"
    /\ \E msg \in InitMsgs :
          LET r == init(storage, msg)
          IN  /\ storage' = r.store
              /\ phase' = IF r.err = Ok THEN "ready" ELSE "failed"
              /\ last' = Call("init", NoAddr, NoHuman, NoHuman, <<>>, msg,
                              r.err, <<>>)
              /\ listed_sum' = ListedSum(msg.initial_balances, 1)
    /\ UNCHANGED <<calls, approved, moved>>

\* handle(deps, params, HandleMsg::Transfer { recipient, amount })
Transfer ==
    /\ phase = "ready"
    /\ calls < MaxCalls
    /\ \E signer \in CanonicalAddrs, m \in TransferMsgs :
          LET r == try_transfer(storage, signer, m.recipient, m.amount)
          IN  /\ storage' = r.store
              /\ last' = Call("transfer", signer, NoHuman, m.recipient,
                              m.amount, NoMsg, r.err, <<>>)
    /\ calls' = calls + 1
    /\ UNCHANGED <<phase, approved, moved, listed_sum>>

\* handle(deps, params, HandleMsg::Approve { spender, amount })
Approve ==
    /\ phase = "ready"
    /\ calls < MaxCalls
    /\ \E signer \in CanonicalAddrs, m \in ApproveMsgs :
          LET r == try_approve(storage, signer, m.spender, m.amount)
              pair == <<signer, canonical_address(m.spender).addr>>
          IN  /\ storage' = r.store
              /\ last' = Call("approve", signer, NoHuman, m.spender, m.amount,
                              NoMsg, r.err, <<>>)
              /\ IF r.err = Ok
                 THEN /\ approved' = [approved EXCEPT ![pair] = parse(m.amount).val]
                      /\ moved' = [moved EXCEPT ![pair] = 0]
                 ELSE UNCHANGED <<approved, moved>>
    /\ calls' = calls + 1
    /\ UNCHANGED <<phase, listed_sum>>

\* handle(deps, params, HandleMsg::TransferFrom { owner, recipient, amount })
TransferFrom ==
    /\ phase = "ready"
    /\ calls < MaxCalls
    /\ \E signer \in CanonicalAddrs, m \in TransferFromMsgs :
          LET r == try_transfer_from(storage, signer, m.owner, m.recipient,
                                     m.amount)
              pair == <<canonical_address(m.owner).addr, signer>>
          IN  /\ storage' = r.store
              /\ last' = Call("transfer_from", signer, m.owner, m.recipient,
                              m.amount, NoMsg, r.err, <<>>)
              /\ IF r.err = Ok
                 THEN moved' = [moved EXCEPT ![pair] = @ + parse(m.amount).val]
                 ELSE UNCHANGED moved
    /\ calls' = calls + 1
    /\ UNCHANGED <<phase, approved, listed_sum>>

\* query(deps, QueryMsg::Balance { address })
QueryBalance ==
    /\ phase = "ready"
    /\ calls < MaxCalls
    /\ \E m \in BalanceQueries :
          LET r == query_balance(storage, m.address)
          IN  last' = Call("query_balance", NoAddr, NoHuman, m.address, <<>>,
                           NoMsg, r.err, r.data)
    /\ calls' = calls + 1
    /\ UNCHANGED <<phase, storage, approved, moved, listed_sum>>

\* query(deps, QueryMsg::Allowance { owner, spender })
QueryAllowance ==
    /\ phase = "ready"
    /\ calls < MaxCalls
    /\ \E m \in AllowanceQueries :
          LET r == query_allowance(storage, m.owner, m.spender)
          IN  last' = Call("query_allowance", NoAddr, m.owner, m.spender, <<>>,
                           NoMsg, r.err, r.data)
    /\ calls' = calls + 1
    /\ UNCHANGED <<phase, storage, approved, moved, listed_sum>>

Next ==
    \/ InitCall
    \/ Transfer
    \/ Approve
    \/ TransferFrom
    \/ QueryBalance
    \/ QueryAllowance

Spec == Init /\ [][Next]_vars

(***************************************************************************)
(* Reading a store                                                          *)
(***************************************************************************)
Balance(store, addr) == read_balance(store, addr).val
Allowance(store, owner, spender) == read_allowance(store, owner, spender).val
TotalSupply(store) == parse(store[KEY_TOTAL_SUPPLY]).val

RECURSIVE SumOver(_, _)
SumOver(f, S) ==
    IF S = {} THEN 0
    ELSE LET x == CHOOSE y \in S : TRUE
         IN  f[x] + SumOver(f, S \ {x})

SumBalances(store) ==
    SumOver([a \in CanonicalAddrs |-> Balance(store, a)], CanonicalAddrs)

\* the arguments of the last call, canonicalized and parsed
LastOwner == canonical_address(last.owner).addr
LastOther == canonical_address(last.other).addr
LastAmount == parse(last.amount).val
LastTransferArgsOk ==
    /\ last.op = "transfer"
    /\ canonical_address(last.other).err = Ok
    /\ parse(last.amount).err = Ok
LastApproveArgsOk ==
    /\ last.op = "approve"
    /\ canonical_address(last.other).err = Ok
    /\ parse(last.amount).err = Ok
LastTransferFromArgsOk ==
    /\ last.op = "transfer_from"
    /\ canonical_address(last.owner).err = Ok
    /\ canonical_address(last.other).err = Ok
    /\ parse(last.amount).err = Ok

\* the balance of addr after amount has moved from one account to another
BalanceAfterMove(store, from, to, amount, addr) ==
    Balance(store, addr) - (IF addr = from THEN amount ELSE 0)
                         + (IF addr = to THEN amount ELSE 0)

SameAllowancesExcept(except) ==
    \A p \in Pairs \ except :
        Allowance(storage, p[1], p[2]) = Allowance(last.pre, p[1], p[2])

SameBalances ==
    \A a \in CanonicalAddrs : Balance(storage, a) = Balance(last.pre, a)

(***************************************************************************)
(* Claims                                                                   *)
(***************************************************************************)

\* C1 (Conservation): in every state after a successful init and any calls of
\* transfer, approve and transfer_from, the sum of all stored balances equals
\* the stored total supply.
Conservation ==
    phase = "ready" => SumBalances(storage) = TotalSupply(storage)

\* C2: after a successful init the stored name, symbol and decimals are the
\* request's, the stored total supply is the sum of the listed amounts, each
\* listed account holds the amount listed for it and every unlisted account
\* holds 0.
InitStoresRequest ==
    (last.op = "init" /\ last.err = Ok) =>
        LET rows == last.msg.initial_balances
            listed == {canonical_address(rows[i].address).addr :
                          i \in 1..Len(rows)}
        IN  /\ storage[KEY_CONSTANTS].name = last.msg.name
            /\ storage[KEY_CONSTANTS].symbol = last.msg.symbol
            /\ storage[KEY_CONSTANTS].decimals = last.msg.decimals
            /\ TotalSupply(storage) = ListedSum(rows, 1)
            /\ \A i \in 1..Len(rows) :
                  Balance(storage, canonical_address(rows[i].address).addr)
                      = parse(rows[i].amount).val
            /\ \A a \in CanonicalAddrs \ listed : Balance(storage, a) = 0

\* C3 (Transfer correctness): a transfer of x by A to B with balance(A) >= x
\* succeeds, takes x from A's balance, adds x to B's and leaves every other
\* balance as it was.
TransferCorrect ==
    (LastTransferArgsOk /\ Balance(last.pre, last.signer) >= LastAmount) =>
        /\ last.err = Ok
        /\ \A a \in CanonicalAddrs :
              Balance(storage, a)
                  = BalanceAfterMove(last.pre, last.signer, LastOther, LastAmount, a)

\* C4 (Transfer failure is a no-op): a transfer of x by A with balance(A) < x
\* fails with Insufficient Funds and writes nothing: the store is the store
\* before the call.
TransferFailureNoOp ==
    (LastTransferArgsOk /\ Balance(last.pre, last.signer) < LastAmount) =>
        /\ last.err = ErrInsufficientFunds
        /\ storage = last.pre

\* C4 happens: a holder of a positive balance asked to transfer more than it
\* and was refused.
TransferFailureNoOpWitness ==
    /\ LastTransferArgsOk
    /\ Balance(last.pre, last.signer) > 0
    /\ Balance(last.pre, last.signer) < LastAmount
    /\ last.err = ErrInsufficientFunds

\* C5 (Transfer-from success): a transfer_from of x by S from O to R with
\* allowance(O,S) >= x and balance(O) >= x succeeds, takes x from
\* allowance(O,S) and from O's balance, adds x to R's balance and changes no
\* other balance or allowance.
TransferFromCorrect ==
    (/\ LastTransferFromArgsOk
     /\ Allowance(last.pre, LastOwner, last.signer) >= LastAmount
     /\ Balance(last.pre, LastOwner) >= LastAmount) =>
        /\ last.err = Ok
        /\ Allowance(storage, LastOwner, last.signer)
              = Allowance(last.pre, LastOwner, last.signer) - LastAmount
        /\ \A a \in CanonicalAddrs :
              Balance(storage, a)
                  = BalanceAfterMove(last.pre, LastOwner, LastOther, LastAmount, a)
        /\ SameAllowancesExcept({<<LastOwner, last.signer>>})

\* C6 (Transfer-from failure changes nothing): a transfer_from of x by S from
\* O with allowance(O,S) < x, or with allowance(O,S) >= x and balance(O) < x,
\* returns an error and leaves every balance and every allowance as it was.
TransferFromFailureNoOp ==
    (/\ LastTransferFromArgsOk
     /\ \/ Allowance(last.pre, LastOwner, last.signer) < LastAmount
        \/ Balance(last.pre, LastOwner) < LastAmount) =>
        /\ last.err # Ok
        /\ SameBalances
        /\ SameAllowancesExcept({})

\* C7 (Approve overwrites): an approve of b by O for S sets allowance(O,S) to
\* b whatever it was before, also right after an approve of a by O for S.
ApproveOverwrites ==
    LastApproveArgsOk =>
        /\ last.err = Ok
        /\ Allowance(storage, last.signer, LastOther) = LastAmount

\* C7 happens: O approved b for S while allowance(O,S) was a, with a and b
\* positive and different.
ApproveOverwritesWitness ==
    /\ LastApproveArgsOk
    /\ last.err = Ok
    /\ Allowance(last.pre, last.signer, LastOther) > 0
    /\ LastAmount > 0
    /\ Allowance(last.pre, last.signer, LastOther) # LastAmount

\* C8 (Allowance is consumed exactly once): what S's successful
\* transfer_from calls moved out of O since O's last approve of a for S never
\* exceeds a, allowance(O,S) is a minus that total, and with allowance 0 a
\* transfer_from of a positive amount fails with Insufficient Allowance.
AllowanceConsumedOnce ==
    phase = "ready" =>
        /\ \A p \in Pairs :
              /\ moved[p] <= approved[p]
              /\ Allowance(storage, p[1], p[2]) = approved[p] - moved[p]
        /\ (/\ LastTransferFromArgsOk
            /\ Allowance(last.pre, LastOwner, last.signer) = 0
            /\ LastAmount > 0) => last.err = ErrInsufficientAllowance

\* C9 (Non-negativity): every stored balance and allowance is a u128, and no
\* call subtracts from a balance or an allowance more than it held: a
\* transfer that debits A found balance(A) >= x, a transfer_from that writes
\* the allowance found allowance(O,S) >= x, and one that debits O found
\* balance(O) >= x.
NonNegativity ==
    phase = "ready" =>
        /\ \A a \in CanonicalAddrs : Balance(storage, a) \in 0..(U128Modulus - 1)
        /\ \A p \in Pairs :
              Allowance(storage, p[1], p[2]) \in 0..(U128Modulus - 1)
        /\ (LastTransferArgsOk /\ last.err = Ok) =>
              Balance(last.pre, last.signer) - LastAmount >= 0
        /\ (LastTransferFromArgsOk /\ storage # last.pre) =>
              Allowance(last.pre, LastOwner, last.signer) - LastAmount >= 0
        /\ (LastTransferFromArgsOk /\ last.err = Ok) =>
              /\ Allowance(last.pre, LastOwner, last.signer) - LastAmount >= 0
              /\ Balance(last.pre, LastOwner) - LastAmount >= 0

\* C9 happens: a transfer_from took all of a positive allowance and all of
\* the owner's balance.
NonNegativityWitness ==
    /\ LastTransferFromArgsOk
    /\ last.err = Ok
    /\ LastAmount > 0
    /\ Allowance(last.pre, LastOwner, last.signer) = LastAmount
    /\ Balance(last.pre, LastOwner) = LastAmount
    /\ Allowance(storage, LastOwner, last.signer) = 0
    /\ Balance(storage, LastOwner) = 0

\* C10 (Default reads): a balance query for an account whose balance key was
\* never written, and an allowance query for a pair whose key was never
\* written, succeed with 0 and leave the store as it was.
DefaultReads ==
    /\ (/\ last.op = "query_balance"
        /\ canonical_address(last.other).err = Ok
        /\ BalanceKey(LastOther) \notin DOMAIN last.pre) =>
            /\ last.err = Ok
            /\ last.data = <<ASCII_ZERO>>
            /\ storage = last.pre
    /\ (/\ last.op = "query_allowance"
        /\ canonical_address(last.owner).err = Ok
        /\ canonical_address(last.other).err = Ok
        /\ AllowanceKey(LastOwner, LastOther) \notin DOMAIN last.pre) =>
            /\ last.err = Ok
            /\ last.data = <<ASCII_ZERO>>
            /\ storage = last.pre

\* C10 happens: the allowance of a never-written pair was queried in a store
\* that holds a positive balance and another pair's positive allowance.
DefaultReadsWitness ==
    /\ last.op = "query_allowance"
    /\ canonical_address(last.owner).err = Ok
    /\ canonical_address(last.other).err = Ok
    /\ AllowanceKey(LastOwner, LastOther) \notin DOMAIN last.pre
    /\ \E p \in Pairs : Allowance(last.pre, p[1], p[2]) > 0
    /\ \E a \in CanonicalAddrs : Balance(last.pre, a) > 0
    /\ last.err = Ok

(***************************************************************************)
(* The amount codec on arbitrary stored bytes: the store starts with one    *)
(* balance key holding any byte string of up to U128Bytes + 1 bytes, and    *)
(* the value is decoded directly and through a balance query.               *)
(***************************************************************************)
ByteStrings == SeqsUpTo(0..(ByteBase - 1), U128Bytes + 1)

CodecInit ==
    /\ phase = "ready"
    /\ \E a \in CanonicalAddrs, data \in ByteStrings :
          storage = set(EmptyStore, BalanceKey(a), data)
    /\ calls = 0
    /\ last = [op |-> "none", signer |-> NoAddr, owner |-> NoHuman,
               other |-> NoHuman, amount |-> <<>>, msg |-> NoMsg, err |-> Ok,
               data |-> <<>>, pre |-> EmptyStore]
    /\ approved = [p \in Pairs |-> 0]
    /\ moved = [p \in Pairs |-> 0]
    /\ listed_sum = 0

\* bytes_to_u128(&data) on the value stored for an account
DecodeStored ==
    /\ phase = "ready"
    /\ calls < MaxCalls
    /\ \E h \in ValidHumanAddrs :
          /\ BalanceKey(canonical_address(h).addr) \in DOMAIN storage
          /\ LET r == bytes_to_u128(storage[BalanceKey(canonical_address(h).addr)])
             IN  last' = Call("bytes_to_u128", NoAddr, NoHuman, h, <<>>, NoMsg,
                              r.err,
                              IF r.err = Ok THEN AmountFrom(r.val) ELSE <<>>)
    /\ calls' = calls + 1
    /\ UNCHANGED <<phase, storage, approved, moved, listed_sum>>

NextCodec ==
    \/ DecodeStored
    \/ QueryBalance

SpecCodec == CodecInit /\ [][NextCodec]_vars

\* C11 (Corruption detection): decoding a stored value whose length is not
\* exactly U128Bytes (16 in the contract) returns the Corrupted Data error,
\* a read of a key holding such a value returns that error too, and a value
\* of exactly U128Bytes bytes decodes to its big-endian integer.
CorruptionDetected ==
    (/\ last.op \in {"bytes_to_u128", "query_balance"}
     /\ canonical_address(last.other).err = Ok
     /\ BalanceKey(LastOther) \in DOMAIN last.pre) =>
        LET data == last.pre[BalanceKey(LastOther)]
        IN  IF Len(data) = U128Bytes
            THEN /\ last.err = Ok
                 /\ last.data = AmountFrom(from_be_bytes(data))
            ELSE last.err = ErrCorrupted

\* what an init request asks for, read off the request itself
LastRowsOk ==
    \A i \in 1..Len(last.msg.initial_balances) :
        /\ canonical_address(last.msg.initial_balances[i].address).err = Ok
        /\ parse(last.msg.initial_balances[i].amount).err = Ok
LastAmountsParse ==
    \A i \in 1..Len(last.msg.initial_balances) :
        parse(last.msg.initial_balances[i].amount).err = Ok
LastNameBad ==
    Len(last.msg.name) < MIN_NAME_LEN \/ Len(last.msg.name) > MAX_NAME_LEN
LastSymbolBad ==
    \/ Len(last.msg.symbol) < MIN_SYMBOL_LEN
    \/ Len(last.msg.symbol) > MAX_SYMBOL_LEN
    \/ \E i \in 1..Len(last.msg.symbol) :
          last.msg.symbol[i] \notin ASCII_UPPER_A..ASCII_UPPER_Z
LastDecimalsBad == last.msg.decimals > MAX_DECIMALS
NothingSaved ==
    /\ KEY_CONSTANTS \notin DOMAIN storage
    /\ KEY_TOTAL_SUPPLY \notin DOMAIN storage

\* the outcome the three checks of init give, in their order
ValidationOutcome(whenValid) ==
    IF LastNameBad THEN last.err = ErrInvalidName /\ NothingSaved
    ELSE IF LastSymbolBad THEN last.err = ErrInvalidSymbol /\ NothingSaved
    ELSE IF LastDecimalsBad THEN last.err = ErrInvalidDecimals /\ NothingSaved
    ELSE whenValid => last.err = Ok

\* C12 as claimed (Init validation): an init request with a name outside 3..30
\* bytes fails with Invalid Name, otherwise one with a symbol that is not 3
\* to 6 bytes in 'A'..'Z' fails with Invalid Symbol, otherwise one with
\* decimals above 18 fails with Invalid Decimals, each without writing
\* Constants or Total Supply; one that passes, with parseable amounts,
\* succeeds.
InitValidationAsClaimed ==
    last.op = "init" => ValidationOutcome(LastAmountsParse)

\* C12 as amended: the same, for an init request whose rows all canonicalize
\* and parse; a request with a row that does not fails with that row's error
\* before any of the three checks, and no failing init writes Constants or
\* Total Supply.
InitValidation ==
    last.op = "init" =>
        /\ LastRowsOk => ValidationOutcome(TRUE)
        /\ ~LastRowsOk => last.err \in {ErrCanonical, ErrParse}
        /\ last.err # Ok => NothingSaved

\* C12 happens: an init with well-formed rows, a valid name and a bad symbol
\* was refused after its balances were written.
InitValidationWitness ==
    /\ last.op = "init"
    /\ LastRowsOk
    /\ Len(last.msg.initial_balances) > 0
    /\ ~LastNameBad
    /\ LastSymbolBad
    /\ last.err = ErrInvalidSymbol
    /\ NothingSaved

\* C13 (No observable partial state on a failed init): an init that returns
\* an error leaves no write in the store.
FailedInitWritesNothing ==
    (last.op = "init" /\ last.err # Ok) => storage = last.pre

\* C14 (Constants and Total Supply are fixed at genesis): no handle call and
\* no query, succeeding or failing, changes the stored name, symbol, decimals
\* or Total Supply.
GenesisFixed ==
    (phase = "ready" /\ last.op \notin {"none", "init"}) =>
        /\ KEY_CONSTANTS \in DOMAIN storage
        /\ KEY_TOTAL_SUPPLY \in DOMAIN storage
        /\ KEY_CONSTANTS \in DOMAIN last.pre
        /\ KEY_TOTAL_SUPPLY \in DOMAIN last.pre
        /\ storage[KEY_CONSTANTS] = last.pre[KEY_CONSTANTS]
        /\ storage[KEY_TOTAL_SUPPLY] = last.pre[KEY_TOTAL_SUPPLY]
        /\ TotalSupply(storage) = listed_sum % U128Modulus

\* C14 happens: a transfer_from moved a positive amount and the Total Supply
\* read after it is the positive total of genesis.
GenesisFixedWitness ==
    /\ LastTransferFromArgsOk
    /\ last.err = Ok
    /\ LastAmount > 0
    /\ LastOwner # LastOther
    /\ TotalSupply(storage) > 0
    /\ storage # last.pre

\* C15 (Transfer-from write ordering): a transfer_from whose allowance check
\* fails writes nothing, and one that fails on the owner's balance with
\* Insufficient Funds leaves the store holding allowance(O,S) reduced by the
\* requested amount, every balance and every other allowance as before: the
\* allowance is written before the balance is checked.
AllowanceWrittenFirst ==
    LastTransferFromArgsOk =>
        /\ last.err = ErrInsufficientAllowance => storage = last.pre
        /\ Allowance(last.pre, LastOwner, last.signer) < LastAmount =>
              last.err = ErrInsufficientAllowance
        /\ last.err = ErrInsufficientFunds =>
              /\ Allowance(last.pre, LastOwner, last.signer) >= LastAmount
              /\ Balance(last.pre, LastOwner) < LastAmount
              /\ Allowance(storage, LastOwner, last.signer)
                    = Allowance(last.pre, LastOwner, last.signer) - LastAmount
              /\ storage = write_allowance(last.pre, LastOwner, last.signer,
                              Allowance(last.pre, LastOwner, last.signer)
                                  - LastAmount)
              /\ SameBalances
              /\ SameAllowancesExcept({<<LastOwner, last.signer>>})

\* C15 happens: a transfer_from within a positive allowance failed on the
\* owner's balance and the stored allowance is smaller than before.
AllowanceWrittenFirstWitness ==
    /\ LastTransferFromArgsOk
    /\ last.err = ErrInsufficientFunds
    /\ LastAmount > 0
    /\ Allowance(storage, LastOwner, last.signer)
          < Allowance(last.pre, LastOwner, last.signer)

\* C16 (Namespace isolation of approve): an approve with well-formed
\* arguments succeeds whatever the owner's balance and the prior allowance,
\* and changes the entry allowance(O,S) alone: every balance, the Constants,
\* the Total Supply and every other pair's allowance stay as they were; and
\* a transfer changes no allowance.
ApproveIsolated ==
    /\ LastApproveArgsOk =>
          /\ last.err = Ok
          /\ DOMAIN storage
                = DOMAIN last.pre \cup {AllowanceKey(last.signer, LastOther)}
          /\ \A k \in DOMAIN last.pre \ {AllowanceKey(last.signer, LastOther)} :
                storage[k] = last.pre[k]
          /\ SameBalances
          /\ SameAllowancesExcept({<<last.signer, LastOther>>})
    /\ last.op = "transfer" => SameAllowancesExcept({})

\* C16 happens: an owner without balance approved a spender who had approved
\* the owner, and the spender's own approval is still in the store.
ApproveIsolatedWitness ==
    /\ LastApproveArgsOk
    /\ last.err = Ok
    /\ last.signer # LastOther
    /\ Balance(last.pre, last.signer) = 0
    /\ LastAmount > 0
    /\ Allowance(last.pre, LastOther, last.signer) > 0
    /\ Allowance(storage, LastOther, last.signer)
          = Allowance(last.pre, LastOther, last.signer)
    /\ Allowance(storage, last.signer, LastOther) = LastAmount

LastHeaderOk == ~LastNameBad /\ ~LastSymbolBad /\ ~LastDecimalsBad

\* row i is the last row of the init request that lists its account
LastRowOfAccount(i) ==
    \A j \in (i + 1)..Len(last.msg.initial_balances) :
        last.msg.initial_balances[j].address
            # last.msg.initial_balances[i].address

\* C17 (Init total wraps silently): a well-formed init request whose listed
\* amounts sum past the largest u128 succeeds, stores as Total Supply the sum
\* modulo U128Modulus, and stores each account's balance as listed (the
\* amount of the last row that lists the account), not reduced.
InitTotalWraps ==
    (/\ last.op = "init"
     /\ LastRowsOk
     /\ LastHeaderOk
     /\ ListedSum(last.msg.initial_balances, 1) >= U128Modulus) =>
        /\ last.err = Ok
        /\ TotalSupply(storage)
              = ListedSum(last.msg.initial_balances, 1) % U128Modulus
        /\ \A i \in 1..Len(last.msg.initial_balances) :
              LastRowOfAccount(i) =>
                  Balance(storage,
                      canonical_address(last.msg.initial_balances[i].address).addr)
                    = parse(last.msg.initial_balances[i].amount).val

\* C17 happens: an init listed two accounts with amounts summing past the
\* largest u128 and succeeded; the Total Supply is below either balance.
InitTotalWrapsWitness ==
    /\ last.op = "init"
    /\ last.err = Ok
    /\ ListedSum(last.msg.initial_balances, 1) >= U128Modulus
    /\ \E a, b \in CanonicalAddrs :
          /\ a # b
          /\ Balance(storage, a) > TotalSupply(storage)
          /\ Balance(storage, b) > TotalSupply(storage)

\* the balance perform_transfer reads for the recipient: the stored one, after
\* the debit when the recipient is also the sender
RecipientBalance(from, to) ==
    IF to = from THEN Balance(last.pre, from) - LastAmount
    ELSE Balance(last.pre, to)

\* C18 (Debit authorization): the balance of an account X is lower after a
\* call than before it only if the call is a successful transfer by X, or a
\* successful transfer_from with X as owner by a caller whose allowance from
\* X covered the amount before the call.
DebitAuthorized ==
    phase = "ready" =>
        \A x \in CanonicalAddrs :
            Balance(storage, x) < Balance(last.pre, x) =>
                \/ /\ LastTransferArgsOk
                   /\ last.err = Ok
                   /\ last.signer = x
                \/ /\ LastTransferFromArgsOk
                   /\ last.err = Ok
                   /\ LastOwner = x
                   /\ Allowance(last.pre, x, last.signer) >= LastAmount

\* C19 (No recipient overflow when genesis fits): when the amounts listed at
\* init sum to at most the largest u128, a transfer or transfer_from that
\* passes its checks never finds a recipient balance that, with the amount
\* added, exceeds the largest u128.
NoRecipientOverflow ==
    (phase = "ready" /\ listed_sum <= U128Modulus - 1) =>
        /\ SumBalances(storage) <= U128Modulus - 1
        /\ (LastTransferArgsOk /\ Balance(last.pre, last.signer) >= LastAmount) =>
              /\ last.err = Ok
              /\ RecipientBalance(last.signer, LastOther) + LastAmount
                    <= U128Modulus - 1
              /\ Balance(storage, LastOther)
                    = RecipientBalance(last.signer, LastOther) + LastAmount
        /\ (/\ LastTransferFromArgsOk
            /\ Allowance(last.pre, LastOwner, last.signer) >= LastAmount
            /\ Balance(last.pre, LastOwner) >= LastAmount) =>
              /\ last.err = Ok
              /\ RecipientBalance(LastOwner, LastOther) + LastAmount
                    <= U128Modulus - 1
              /\ Balance(storage, LastOther)
                    = RecipientBalance(LastOwner, LastOther) + LastAmount

\* C19 happens: after a genesis of the largest u128 in all, a transfer brought
\* the whole supply to one recipient who already held some.
NoRecipientOverflowWitness ==
    /\ listed_sum = U128Modulus - 1
    /\ LastTransferArgsOk
    /\ last.err = Ok
    /\ LastAmount > 0
    /\ last.signer # LastOther
    /\ Balance(last.pre, LastOther) > 0
    /\ Balance(storage, LastOther) = U128Modulus - 1

\* C20 as claimed (Self-transfer is balance-neutral): a transfer to the
\* caller, or a transfer_from whose recipient is the owner, of an amount
\* within the balance succeeds and leaves that balance, and every other
\* balance, as it was.
SelfTransferNeutralAsClaimed ==
    /\ (/\ LastTransferArgsOk
        /\ LastOther = last.signer
        /\ LastAmount <= Balance(last.pre, last.signer)) =>
            last.err = Ok /\ SameBalances
    /\ (/\ LastTransferFromArgsOk
        /\ LastOther = LastOwner
        /\ LastAmount <= Balance(last.pre, LastOwner)) =>
            last.err = Ok /\ SameBalances

\* C20 as amended: the same, for a transfer_from whose amount is also within
\* allowance(O,S); one whose amount exceeds the allowance fails, with every
\* balance as it was.
SelfTransferNeutral ==
    /\ (/\ LastTransferArgsOk
        /\ LastOther = last.signer
        /\ LastAmount <= Balance(last.pre, last.signer)) =>
            last.err = Ok /\ SameBalances
    /\ (/\ LastTransferFromArgsOk
        /\ LastOther = LastOwner
        /\ LastAmount <= Balance(last.pre, LastOwner)) =>
            /\ SameBalances
            /\ last.err = IF LastAmount <= Allowance(last.pre, LastOwner,
                                                     last.signer)
                          THEN Ok ELSE ErrInsufficientAllowance

\* C20 happens: a spender moved all of an owner's positive balance from the
\* owner to the owner.
SelfTransferNeutralWitness ==
    /\ LastTransferFromArgsOk
    /\ last.err = Ok
    /\ LastOther = LastOwner
    /\ last.signer # LastOwner
    /\ LastAmount > 0
    /\ LastAmount = Balance(last.pre, LastOwner)
    /\ Balance(storage, LastOwner) = LastAmount

====
